---- MODULE Spec2Model ----
(***************************************************************************)
(* The Gemini agent loop of surf: GoogleComputerStreamer.stream() and      *)
(* executeAction() of src/lib/streaming/google.ts, as a state machine.     *)
(* One step of the machine is one stretch of the generator between two     *)
(* suspension points (an await of the model, of the desktop, of the settle *)
(* timer, or a yield to the consumer).                                     *)
(***************************************************************************)
EXTENDS Integers, Sequences, FiniteSets, TLC

VARIABLES
    pc,               \* position of the generator inside stream()
    iterationCount,   \* let iterationCount (google.ts:325)
    continueLoop,     \* let continueLoop (google.ts:324)
    aborted,          \* signal.aborted of the AbortSignal passed in props
    response,         \* const response of the loop body (google.ts:342)
    fcIndex,          \* position of the for-of loop over functionCalls
    executedActions,  \* const executedActions (google.ts:394)
    currentUrl,       \* this.currentUrl (google.ts:49)
    error,            \* the value caught by catch (error) (google.ts:484)
    errSource,        \* which awaited call threw it
    events,           \* events yielded since the last completed iteration
    emittedBefore,    \* some event was yielded in a completed iteration
    doneCount,        \* number of DONE events yielded in the run
    errorCount,       \* number of ERROR events yielded in the run
    modelCalls,       \* number of generateContent calls started in the run
    screenshots,      \* number of takeScreenshot calls started in the run
    desktopCalls,     \* desktop calls started in the current iteration
    settleWaits,      \* settle timers awaited in the current iteration
    modelAlwaysActs,  \* every response so far held a well-formed action call
    resolution,       \* resolutionScaler.getOriginalResolution()
    messages,         \* props.messages (google.ts:263)
    contents,         \* const contents (google.ts:297), one record per turn
    staleShot,        \* a desktop call was started after the last screenshot
    completedAfterAbort, \* ACTION_COMPLETED events yielded after the abort
    abortIteration,   \* iterationCount when the signal was aborted
    functionResponses, \* const functionResponses (google.ts:448) of the
                      \* iteration that has just been completed
    scripts,          \* per request, the responses its model calls return
    parked,           \* per request, the state of its run while another runs
    current,          \* the request whose run takes the next step
    route,            \* position of POST (part_002:36-132)
    requestAborted,   \* request.signal.aborted
    sandboxId,        \* sandboxId of the request body (part_002:46)
    activeSandboxId,  \* let activeSandboxId (part_002:78)
    vncUrl,           \* let vncUrl (part_002:79)
    preamble          \* events the response stream holds before the run's

vars == <<pc, iterationCount, continueLoop, aborted, response, fcIndex,
          executedActions, currentUrl, error, errSource, events,
          emittedBefore, doneCount, errorCount, modelCalls, screenshots,
          desktopCalls, settleWaits, modelAlwaysActs, resolution, messages,
          contents, staleShot, completedAfterAbort, abortIteration,
          functionResponses, scripts, parked, current, route,
          requestAborted, sandboxId, activeSandboxId, vncUrl, preamble>>

(***************************************************************************)
(* Bounds of the environment and constants of the program.                 *)
(***************************************************************************)
MaxParts == 2

MAX_ITERATIONS == 50

MaxCalls == 3

(***************************************************************************)
(* Texts are sequences of characters, so that join and trim are computed.  *)
(***************************************************************************)
RECURSIVE TrimStart(_)
TrimStart(s) ==
    IF s # <<>> /\ Head(s) = " " THEN TrimStart(Tail(s)) ELSE s

RECURSIVE TrimEnd(_)
TrimEnd(s) ==
    IF s # <<>> /\ s[Len(s)] = " " THEN TrimEnd(SubSeq(s, 1, Len(s) - 1)) ELSE s

Trim(s) == TrimEnd(TrimStart(s))

RECURSIVE Join(_)
Join(texts) ==
    IF texts = <<>> THEN <<>> ELSE Head(texts) \o Join(Tail(texts))

RECURSIVE MaxOf(_)
MaxOf(nums) ==
    IF Len(nums) = 1 THEN nums[1]
    ELSE IF nums[1] >= MaxOf(Tail(nums)) THEN nums[1] ELSE MaxOf(Tail(nums))

Includes(message, marker) ==
    \E i \in DOMAIN message : message[i] = marker

(***************************************************************************)
(* The values the model client can return.                                 *)
(***************************************************************************)
Undefined == [undefined |-> TRUE]

ClickCall == [name |-> "click_at", args |-> [x |-> 500, y |-> 500]]

NoNameCall == [name |-> "", args |-> [x |-> 500, y |-> 500]]

NoArgsCall == [name |-> "click_at", args |-> Undefined]

FunctionCalls == {ClickCall, NoNameCall, NoArgsCall}

NoCall == [name |-> "", args |-> Undefined]

Texts == {<<" ">>, <<"a">>}

TextPart(t) == [text |-> t, hasCall |-> FALSE, functionCall |-> NoCall]

CallPart(c) == [text |-> <<>>, hasCall |-> TRUE, functionCall |-> c]

Parts == {TextPart(t) : t \in Texts} \cup {CallPart(c) : c \in FunctionCalls}

PartLists == UNION {[1..n -> Parts] : n \in 0..MaxParts}

NoCandidates == [candidates |-> 0, hasContent |-> FALSE, parts |-> <<>>]

NoContent == [candidates |-> 1, hasContent |-> FALSE, parts |-> <<>>]

Content(ps) == [candidates |-> 1, hasContent |-> TRUE, parts |-> ps]

Responses == {NoCandidates, NoContent} \cup {Content(ps) : ps \in PartLists}

(***************************************************************************)
(* The values an awaited call can throw.                                   *)
(***************************************************************************)
QuotaMarkers == {"quota", "429", "RESOURCE_EXHAUSTED"}

AuthMarkers == {"API key", "API_KEY"}

Messages ==
    {<<t>> : t \in QuotaMarkers \cup AuthMarkers \cup {"timeout"}}
        \cup {<<"API_KEY", "RESOURCE_EXHAUSTED">>, <<"429", "API key">>}

NoError == [isError |-> FALSE, message |-> <<"none">>]

NonErrorValue == [isError |-> FALSE, message |-> <<>>]

Thrown ==
    {[isError |-> TRUE, message |-> m] : m \in Messages} \cup {NonErrorValue}

(***************************************************************************)
(* The events of the stream.                                               *)
(***************************************************************************)
StoppedText == <<"Generation stopped by user">>

NoResponseText == <<"No response from model">>

EmptyResponseText == <<"Empty response from model">>

LimitText == <<"Maximum iteration limit reached. Task may be too complex.">>

QuotaText == <<"Gemini API quota exceeded. Please try again later or use your own API key.">>

AuthText == <<"Invalid Gemini API key. Please check your GEMINI_API_KEY.">>

ServiceText == <<"An error occurred with the AI service. Please try again.">>

GenericText(message) == <<"Error: ">> \o message

NoCallId == ""

Event(t, c) ==
    [type |-> t, content |-> c, action |-> NoCall, callId |-> NoCallId]

Done(c) == Event("done", c)

ErrorEvent(c) == Event("error", c)

Reasoning(c) == Event("reasoning", c)

ActionEvent(a) ==
    [type |-> "action", content |-> <<>>, action |-> a, callId |-> NoCallId]

ActionCompleted == Event("action_completed", <<>>)

CountType(evs, t) == Cardinality({i \in DOMAIN evs : evs[i].type = t})

Emit(evs) ==
    /\ events' = events \o evs
    /\ doneCount' = doneCount + CountType(evs, "done")
    /\ errorCount' = errorCount + CountType(evs, "error")

(***************************************************************************)
(* types/google.ts                                                         *)
(***************************************************************************)
Round(num, den) == (2 * num + den) \div (2 * den)

denormalizeX(x, screenWidth) == Round(x * screenWidth, 1000)

denormalizeY(y, screenHeight) == Round(y * screenHeight, 1000)

(***************************************************************************)
(* Optional arguments (types/google.ts:97-98, 131): a boolean argument is  *)
(* "true", "false" or absent, a numeric argument a number or absent.       *)
(***************************************************************************)
Absent == "absent"

NoNumber == -1

Truthy(flag) == flag = "true"

NotFalseOnlyWhenTrue(flag) == flag = "true"

NotFalse(flag) == flag # "false"

(***************************************************************************)
(* getActionSettleDelay                                                    *)
(***************************************************************************)
getActionSettleDelay(action) ==
    CASE action.name \in {"click_at", "hover_at"} -> 400
      [] action.name = "type_text_at" ->
            IF Truthy(action.args.press_enter) THEN 3000
            ELSE Len(action.args.text) * 50
      [] action.name = "key_combination" -> 300
      [] action.name \in {"scroll_document", "scroll_at"} -> 200
      [] action.name = "drag_and_drop" -> 300
      [] action.name = "navigate" -> 800
      [] OTHER -> 300

(***************************************************************************)
(* executeAction: the desktop calls an action makes, in order, and the     *)
(* url it leaves in this.currentUrl.                                       *)
(***************************************************************************)
DesktopCall(op, at, text) == [op |-> op, at |-> at, text |-> text]

leftClick(x, y) == DesktopCall("leftClick", <<x, y>>, <<>>)

moveMouse(x, y) == DesktopCall("moveMouse", <<x, y>>, <<>>)

press(keys) == DesktopCall("press", <<>>, <<keys>>)

write(text) == DesktopCall("write", <<>>, text)

scroll(direction, amount) == DesktopCall("scroll", <<amount>>, <<direction>>)

drag(from, to) == DesktopCall("drag", from \o to, <<>>)

actualMagnitude(magnitude) ==
    Round((IF magnitude = NoNumber \/ magnitude = 0 THEN 800 ELSE magnitude)
            * 500, 1000)

ActionCalls(action) ==
    LET args == action.args
        actualX == denormalizeX(args.x, resolution[1])
        actualY == denormalizeY(args.y, resolution[2])
    IN  CASE action.name = "click_at" -> <<leftClick(actualX, actualY)>>
          [] action.name = "hover_at" -> <<moveMouse(actualX, actualY)>>
          [] action.name = "type_text_at" ->
                <<leftClick(actualX, actualY)>>
                    \o (IF NotFalse(args.clear_before_typing)
                        THEN <<press("Control+a"), press("Backspace")>>
                        ELSE <<>>)
                    \o <<write(args.text)>>
                    \o (IF NotFalse(args.press_enter)
                        THEN <<press("Enter")>>
                        ELSE <<>>)
          [] action.name = "key_combination" -> <<press(args.keys)>>
          [] action.name = "scroll_document" ->
                IF args.direction \in {"up", "down"}
                THEN <<scroll(args.direction, 500)>>
                ELSE <<>>
          [] action.name = "scroll_at" ->
                <<leftClick(actualX, actualY)>>
                    \o (IF args.direction \in {"up", "down"}
                        THEN <<scroll(args.direction,
                                      actualMagnitude(args.magnitude))>>
                        ELSE <<>>)
          [] action.name = "drag_and_drop" ->
                <<drag(<<actualX, actualY>>,
                       <<denormalizeX(args.destination_x, resolution[1]),
                         denormalizeY(args.destination_y, resolution[2])>>)>>
          [] OTHER -> <<>>

UrlAfterNavigateOnly(action, url) ==
    IF action.name = "navigate" THEN action.args.url ELSE url

UrlAfter(action, url) ==
    CASE action.name = "open_web_browser" -> "about:blank"
      [] action.name = "navigate" -> action.args.url
      [] OTHER -> url

(***************************************************************************)
(* The parts of a response the loop looks at.                              *)
(***************************************************************************)
IsTextPart(part) == part.text # <<>>

IsCallPart(part) == part.hasCall

textParts(parts) == SelectSeq(parts, IsTextPart)

reasoningText(parts) ==
    Join([i \in DOMAIN textParts(parts) |-> textParts(parts)[i].text])

ReasoningEventsUntrimmed(parts) ==
    IF Len(textParts(parts)) > 0
    THEN <<Reasoning(reasoningText(parts))>>
    ELSE <<>>

ReasoningEvents(parts) ==
    IF Len(textParts(parts)) > 0 /\ Trim(reasoningText(parts)) # <<>>
    THEN <<Reasoning(reasoningText(parts))>>
    ELSE <<>>

IsWellFormedCallPart(part) ==
    /\ part.hasCall
    /\ part.functionCall.name # ""
    /\ part.functionCall.args # Undefined

functionCallsWellFormed == SelectSeq(response.parts, IsWellFormedCallPart)

functionCalls == SelectSeq(response.parts, IsCallPart)

IsMalformed(call) == call.name = "" \/ call.args = Undefined

HasWellFormedCall(r) ==
    \E i \in DOMAIN r.parts :
        r.parts[i].hasCall /\ ~IsMalformed(r.parts[i].functionCall)

(***************************************************************************)
(* The conversation: one record per turn of contents. A turn keeps its     *)
(* role, what it holds, the text of a chat message and the number of the   *)
(* screenshot capture it carries (0 when it carries none).                 *)
(***************************************************************************)
UserMessage == [role |-> "user", content |-> <<"a">>]

AssistantMessage == [role |-> "assistant", content |-> <<"b">>]

FollowUpMessage == [role |-> "user", content |-> <<"c">>]

MessageLists ==
    {<<UserMessage>>, <<UserMessage, AssistantMessage, FollowUpMessage>>}

Turn(role, kind, text, shot) ==
    [role |-> role, kind |-> kind, text |-> text, shot |-> shot]

MessageTurn(msg) ==
    Turn(IF msg.role = "user" THEN "user" ELSE "model", "text", msg.content, 0)

ObservationTurn(shot) == Turn("user", "observation", <<>>, shot)

ModelTurn == Turn("model", "content", <<>>, 0)

InitialContents(msgs, shot) ==
    [i \in 1..Len(msgs) |-> MessageTurn(msgs[i])] \o <<ObservationTurn(shot)>>

AppendedTurnsStale(shot) == <<ModelTurn, ObservationTurn(shot - 1)>>

AppendedTurnsSwapped(shot) == <<ObservationTurn(shot), ModelTurn>>

AppendedTurnsObservationOnly(shot) == <<ObservationTurn(shot)>>

AppendedTurns(shot) == <<ModelTurn, ObservationTurn(shot)>>

(***************************************************************************)
(* The state after construction, before stream() runs.                     *)
(***************************************************************************)
NativeResolution == <<1920, 1080>>

Constructed(res, msgs) ==
    /\ resolution = res
    /\ messages = msgs
    /\ contents = <<>>
    /\ staleShot = FALSE
    /\ completedAfterAbort = 0
    /\ abortIteration = 0
    /\ functionResponses = <<>>
    /\ pc = "start"
    /\ iterationCount = 0
    /\ continueLoop = TRUE
    /\ aborted = FALSE
    /\ response = NoCandidates
    /\ fcIndex = 0
    /\ executedActions = <<>>
    /\ currentUrl = "about:blank"
    /\ error = NoError
    /\ errSource = "none"
    /\ events = <<>>
    /\ emittedBefore = FALSE
    /\ doneCount = 0
    /\ errorCount = 0
    /\ modelCalls = 0
    /\ screenshots = 0
    /\ desktopCalls = <<>>
    /\ settleWaits = <<>>
    /\ modelAlwaysActs = TRUE

(***************************************************************************)
(* One request: its run is the only one and nothing is parked.             *)
(***************************************************************************)
(***************************************************************************)
(* stream() called directly, with a signal of the caller's: no request     *)
(* handler is involved.                                                    *)
(***************************************************************************)
NoSandboxId == ""

StreamCalled ==
    /\ route = "streaming"
    /\ requestAborted = FALSE
    /\ sandboxId = NoSandboxId
    /\ activeSandboxId = NoSandboxId
    /\ vncUrl = ""
    /\ preamble = <<>>

SingleRun ==
    /\ scripts = <<>>
    /\ parked = <<>>
    /\ current = 1
    /\ StreamCalled

Init ==
    /\ \E msgs \in MessageLists : Constructed(NativeResolution, msgs)
    /\ SingleRun

(***************************************************************************)
(* stream(): the initial screenshot and the first turns of the             *)
(* conversation (google.ts:266-326).                                       *)
(***************************************************************************)
LeaveLoopBody ==
    /\ response' = NoCandidates
    /\ fcIndex' = 0
    /\ executedActions' = <<>>

InitialScreenshot ==
    /\ pc = "start"
    /\ screenshots' = screenshots + 1
    /\ pc' = "loop"
    /\ contents' = InitialContents(messages, screenshots')
    /\ UNCHANGED <<iterationCount, continueLoop, aborted, response, fcIndex,
                   executedActions, currentUrl, error, errSource, events,
                   emittedBefore, doneCount, errorCount, modelCalls,
                   desktopCalls, settleWaits, modelAlwaysActs, resolution,
                   messages, staleShot, completedAfterAbort, abortIteration,
                   functionResponses, scripts, parked, current, route,
                   requestAborted, sandboxId, activeSandboxId, vncUrl, preamble>>

InitialScreenshotFails ==
    /\ pc = "start"
    /\ screenshots' = screenshots + 1
    /\ \E e \in Thrown : error' = e
    /\ errSource' = "screenshot"
    /\ pc' = "catch"
    /\ LeaveLoopBody
    /\ UNCHANGED <<iterationCount, continueLoop, aborted, currentUrl, events,
                   emittedBefore, doneCount, errorCount, modelCalls,
                   desktopCalls, settleWaits, modelAlwaysActs, resolution,
                   messages, contents, staleShot, completedAfterAbort,
                   abortIteration, functionResponses, scripts, parked, current,
                   route, requestAborted, sandboxId, activeSandboxId, vncUrl,
                   preamble>>

(***************************************************************************)
(* The head of the while loop (google.ts:329-338).                         *)
(***************************************************************************)
LoopConditionInclusive == continueLoop /\ iterationCount <= MAX_ITERATIONS

LoopCondition == continueLoop /\ iterationCount < MAX_ITERATIONS

IterationStartUnchecked ==
    /\ pc = "loop"
    /\ LoopCondition
    /\ iterationCount' = iterationCount + 1
    /\ pc' = "model"
    /\ functionResponses' = <<>>
    /\ UNCHANGED <<continueLoop, aborted, response, fcIndex, executedActions,
                   currentUrl, error, errSource, events, emittedBefore,
                   doneCount, errorCount, modelCalls, screenshots,
                   desktopCalls, settleWaits, modelAlwaysActs, resolution,
                   messages, contents, staleShot, completedAfterAbort,
                   abortIteration, scripts, parked, current, route,
                   requestAborted, sandboxId, activeSandboxId, vncUrl, preamble>>

IterationStart ==
    /\ pc = "loop"
    /\ LoopCondition
    /\ iterationCount' = iterationCount + 1
    /\ ~aborted
    /\ pc' = "model"
    /\ functionResponses' = <<>>
    /\ UNCHANGED <<continueLoop, aborted, response, fcIndex, executedActions,
                   currentUrl, error, errSource, events, emittedBefore,
                   doneCount, errorCount, modelCalls, screenshots,
                   desktopCalls, settleWaits, modelAlwaysActs, resolution,
                   messages, contents, staleShot, completedAfterAbort,
                   abortIteration, scripts, parked, current, route,
                   requestAborted, sandboxId, activeSandboxId, vncUrl, preamble>>

IterationAborted ==
    /\ pc = "loop"
    /\ LoopCondition
    /\ iterationCount' = iterationCount + 1
    /\ aborted
    /\ Emit(<<Done(StoppedText)>>)
    /\ pc' = "post"
    /\ functionResponses' = <<>>
    /\ UNCHANGED <<continueLoop, aborted, response, fcIndex, executedActions,
                   currentUrl, error, errSource, emittedBefore, modelCalls,
                   screenshots, desktopCalls, settleWaits, modelAlwaysActs,
                   resolution, messages, contents, staleShot,
                   completedAfterAbort, abortIteration, scripts, parked,
                   current, route, requestAborted, sandboxId, activeSandboxId,
                   vncUrl, preamble>>

LoopExit ==
    /\ pc = "loop"
    /\ ~LoopCondition
    /\ pc' = "post"
    /\ functionResponses' = <<>>
    /\ UNCHANGED <<iterationCount, continueLoop, aborted, response, fcIndex,
                   executedActions, currentUrl, error, errSource, events,
                   emittedBefore, doneCount, errorCount, modelCalls,
                   screenshots, desktopCalls, settleWaits, modelAlwaysActs,
                   resolution, messages, contents, staleShot,
                   completedAfterAbort, abortIteration, scripts, parked,
                   current, route, requestAborted, sandboxId, activeSandboxId,
                   vncUrl, preamble>>

(***************************************************************************)
(* The model call (google.ts:340-346).                                     *)
(***************************************************************************)
ModelReturnsFrom(answers) ==
    /\ pc = "model"
    /\ modelCalls' = modelCalls + 1
    /\ \E r \in answers :
        /\ response' = r
        /\ modelAlwaysActs' = (modelAlwaysActs /\ HasWellFormedCall(r))
    /\ pc' = "response"
    /\ UNCHANGED <<iterationCount, continueLoop, aborted, fcIndex,
                   executedActions, currentUrl, error, errSource, events,
                   emittedBefore, doneCount, errorCount, screenshots,
                   desktopCalls, settleWaits, resolution, messages, contents,
                   staleShot, completedAfterAbort, abortIteration,
                   functionResponses, scripts, parked, current, route,
                   requestAborted, sandboxId, activeSandboxId, vncUrl, preamble>>

ModelFails ==
    /\ pc = "model"
    /\ modelCalls' = modelCalls + 1
    /\ \E e \in Thrown : error' = e
    /\ errSource' = "model"
    /\ pc' = "catch"
    /\ LeaveLoopBody
    /\ UNCHANGED <<iterationCount, continueLoop, aborted, currentUrl, events,
                   emittedBefore, doneCount, errorCount, screenshots,
                   desktopCalls, settleWaits, modelAlwaysActs, resolution,
                   messages, contents, staleShot, completedAfterAbort,
                   abortIteration, functionResponses, scripts, parked, current,
                   route, requestAborted, sandboxId, activeSandboxId, vncUrl,
                   preamble>>

ModelReturns == ModelReturnsFrom(Responses)

(***************************************************************************)
(* The response is inspected (google.ts:348-394).                          *)
(***************************************************************************)
NoCandidatesDone ==
    /\ pc = "response"
    /\ response.candidates = 0
    /\ Emit(<<Done(NoResponseText)>>)
    /\ pc' = "post"
    /\ UNCHANGED <<iterationCount, continueLoop, aborted, response, fcIndex,
                   executedActions, currentUrl, error, errSource,
                   emittedBefore, modelCalls, screenshots, desktopCalls,
                   settleWaits, modelAlwaysActs, resolution, messages,
                   contents, staleShot, completedAfterAbort, abortIteration,
                   functionResponses, scripts, parked, current, route,
                   requestAborted, sandboxId, activeSandboxId, vncUrl, preamble>>

EmptyContentDone ==
    /\ pc = "response"
    /\ response.candidates > 0
    /\ ~response.hasContent
    /\ Emit(<<Done(EmptyResponseText)>>)
    /\ pc' = "post"
    /\ UNCHANGED <<iterationCount, continueLoop, aborted, response, fcIndex,
                   executedActions, currentUrl, error, errSource,
                   emittedBefore, modelCalls, screenshots, desktopCalls,
                   settleWaits, modelAlwaysActs, resolution, messages,
                   contents, staleShot, completedAfterAbort, abortIteration,
                   functionResponses, scripts, parked, current, route,
                   requestAborted, sandboxId, activeSandboxId, vncUrl, preamble>>

NoFunctionCallsDoneNoBreak ==
    /\ pc = "response"
    /\ response.candidates > 0
    /\ response.hasContent
    /\ Len(functionCalls) = 0
    /\ Emit(ReasoningEvents(response.parts) \o <<Done(<<>>)>>)
    /\ pc' = "recapture"
    /\ UNCHANGED <<iterationCount, continueLoop, aborted, response, fcIndex,
                   executedActions, currentUrl, error, errSource,
                   emittedBefore, modelCalls, screenshots, desktopCalls,
                   settleWaits, modelAlwaysActs, resolution, messages,
                   contents, staleShot, completedAfterAbort, abortIteration,
                   functionResponses, scripts, parked, current, route,
                   requestAborted, sandboxId, activeSandboxId, vncUrl, preamble>>

NoFunctionCallsDone ==
    /\ pc = "response"
    /\ response.candidates > 0
    /\ response.hasContent
    /\ Len(functionCalls) = 0
    /\ Emit(ReasoningEvents(response.parts) \o <<Done(<<>>)>>)
    /\ pc' = "post"
    /\ UNCHANGED <<iterationCount, continueLoop, aborted, response, fcIndex,
                   executedActions, currentUrl, error, errSource,
                   emittedBefore, modelCalls, screenshots, desktopCalls,
                   settleWaits, modelAlwaysActs, resolution, messages,
                   contents, staleShot, completedAfterAbort, abortIteration,
                   functionResponses, scripts, parked, current, route,
                   requestAborted, sandboxId, activeSandboxId, vncUrl, preamble>>

FunctionCallsFound ==
    /\ pc = "response"
    /\ response.candidates > 0
    /\ response.hasContent
    /\ Len(functionCalls) > 0
    /\ Emit(ReasoningEvents(response.parts))
    /\ executedActions' = <<>>
    /\ fcIndex' = 1
    /\ pc' = "calls"
    /\ UNCHANGED <<iterationCount, continueLoop, aborted, response, currentUrl,
                   error, errSource, emittedBefore, modelCalls, screenshots,
                   desktopCalls, settleWaits, modelAlwaysActs, resolution,
                   messages, contents, staleShot, completedAfterAbort,
                   abortIteration, functionResponses, scripts, parked, current,
                   route, requestAborted, sandboxId, activeSandboxId, vncUrl,
                   preamble>>

(***************************************************************************)
(* The loop over the function calls (google.ts:396-426).                   *)
(***************************************************************************)
SkipMalformedCall ==
    /\ pc = "calls"
    /\ fcIndex <= Len(functionCalls)
    /\ IsMalformed(functionCalls[fcIndex].functionCall)
    /\ fcIndex' = fcIndex + 1
    /\ UNCHANGED <<pc, iterationCount, continueLoop, aborted, response,
                   executedActions, currentUrl, error, errSource, events,
                   emittedBefore, doneCount, errorCount, modelCalls,
                   screenshots, desktopCalls, settleWaits, modelAlwaysActs,
                   resolution, messages, contents, staleShot,
                   completedAfterAbort, abortIteration, functionResponses,
                   scripts, parked, current, route, requestAborted, sandboxId,
                   activeSandboxId, vncUrl, preamble>>

YieldAction ==
    /\ pc = "calls"
    /\ fcIndex <= Len(functionCalls)
    /\ ~IsMalformed(functionCalls[fcIndex].functionCall)
    /\ Emit(<<ActionEvent(functionCalls[fcIndex].functionCall)>>)
    /\ pc' = "exec"
    /\ UNCHANGED <<iterationCount, continueLoop, aborted, response, fcIndex,
                   executedActions, currentUrl, error, errSource,
                   emittedBefore, modelCalls, screenshots, desktopCalls,
                   settleWaits, modelAlwaysActs, resolution, messages,
                   contents, staleShot, completedAfterAbort, abortIteration,
                   functionResponses, scripts, parked, current, route,
                   requestAborted, sandboxId, activeSandboxId, vncUrl, preamble>>

CompletedEventsNone == <<>>

CompletedEvents == <<ActionCompleted>>

ExecuteActionRejectsUnsupported ==
    /\ pc = "exec"
    /\ ActionCalls(functionCalls[fcIndex].functionCall) = <<>>
    /\ desktopCalls' = desktopCalls
    /\ \E e \in Thrown : error' = e
    /\ errSource' = "exec"
    /\ pc' = "catch"
    /\ LeaveLoopBody
    /\ staleShot' = TRUE
    /\ UNCHANGED <<iterationCount, continueLoop, aborted, currentUrl, events,
                   emittedBefore, doneCount, errorCount, modelCalls,
                   screenshots, settleWaits, modelAlwaysActs, resolution,
                   messages, contents, completedAfterAbort, abortIteration,
                   functionResponses, scripts, parked, current, route,
                   requestAborted, sandboxId, activeSandboxId, vncUrl, preamble>>

ExecuteActionOutOfOrder ==
    /\ pc = "exec"
    /\ LET action == functionCalls[fcIndex].functionCall IN
        /\ desktopCalls' = ActionCalls(action) \o desktopCalls
        /\ currentUrl' = UrlAfter(action, currentUrl)
        /\ executedActions' = Append(executedActions, action)
    /\ Emit(CompletedEvents)
    /\ fcIndex' = fcIndex + 1
    /\ pc' = "calls"
    /\ staleShot' =
        (staleShot \/ ActionCalls(functionCalls[fcIndex].functionCall) # <<>>)
    /\ completedAfterAbort' = completedAfterAbort +
        (IF aborted THEN CountType(CompletedEvents, "action_completed") ELSE 0)
    /\ UNCHANGED <<iterationCount, continueLoop, aborted, response, error,
                   errSource, emittedBefore, modelCalls, screenshots,
                   settleWaits, modelAlwaysActs, resolution, messages,
                   contents, abortIteration, functionResponses, scripts,
                   parked, current, route, requestAborted, sandboxId,
                   activeSandboxId, vncUrl, preamble>>

ExecuteAction ==
    /\ pc = "exec"
    /\ LET action == functionCalls[fcIndex].functionCall IN
        /\ desktopCalls' = desktopCalls \o ActionCalls(action)
        /\ currentUrl' = UrlAfter(action, currentUrl)
        /\ executedActions' = Append(executedActions, action)
    /\ Emit(CompletedEvents)
    /\ fcIndex' = fcIndex + 1
    /\ pc' = "calls"
    /\ staleShot' =
        (staleShot \/ ActionCalls(functionCalls[fcIndex].functionCall) # <<>>)
    /\ completedAfterAbort' = completedAfterAbort +
        (IF aborted THEN CountType(CompletedEvents, "action_completed") ELSE 0)
    /\ UNCHANGED <<iterationCount, continueLoop, aborted, response, error,
                   errSource, emittedBefore, modelCalls, screenshots,
                   settleWaits, modelAlwaysActs, resolution, messages,
                   contents, abortIteration, functionResponses, scripts,
                   parked, current, route, requestAborted, sandboxId,
                   activeSandboxId, vncUrl, preamble>>

ExecuteActionFailsSwallowed ==
    /\ pc = "exec"
    /\ LET calls == ActionCalls(functionCalls[fcIndex].functionCall) IN
        \E n \in 1..Len(calls) :
            desktopCalls' = desktopCalls \o SubSeq(calls, 1, n)
    /\ \E e \in Thrown : error' = e
    /\ errSource' = "exec"
    /\ pc' = "calls"
    /\ fcIndex' = fcIndex + 1
    /\ staleShot' = TRUE
    /\ UNCHANGED <<response, executedActions, iterationCount, continueLoop,
                   aborted, currentUrl, events, emittedBefore, doneCount,
                   errorCount, modelCalls, screenshots, settleWaits,
                   modelAlwaysActs, resolution, messages, contents,
                   completedAfterAbort, abortIteration, functionResponses,
                   scripts, parked, current, route, requestAborted, sandboxId,
                   activeSandboxId, vncUrl, preamble>>

ExecuteActionFails ==
    /\ pc = "exec"
    /\ LET calls == ActionCalls(functionCalls[fcIndex].functionCall) IN
        \E n \in 1..Len(calls) :
            desktopCalls' = desktopCalls \o SubSeq(calls, 1, n)
    /\ \E e \in Thrown : error' = e
    /\ errSource' = "exec"
    /\ pc' = "catch"
    /\ LeaveLoopBody
    /\ staleShot' = TRUE
    /\ UNCHANGED <<iterationCount, continueLoop, aborted, currentUrl, events,
                   emittedBefore, doneCount, errorCount, modelCalls,
                   screenshots, settleWaits, modelAlwaysActs, resolution,
                   messages, contents, completedAfterAbort, abortIteration,
                   functionResponses, scripts, parked, current, route,
                   requestAborted, sandboxId, activeSandboxId, vncUrl, preamble>>

(***************************************************************************)
(* After the calls: settle, recapture, append (google.ts:428-471).         *)
(***************************************************************************)
SettleDelaysPerAction ==
    [i \in DOMAIN executedActions |->
        getActionSettleDelay(executedActions[i])]

SettleDelays ==
    IF Len(executedActions) > 0
    THEN <<MaxOf([i \in DOMAIN executedActions |->
                    getActionSettleDelay(executedActions[i])])>>
    ELSE <<>>

Settle ==
    /\ pc = "calls"
    /\ fcIndex > Len(functionCalls)
    /\ settleWaits' = settleWaits \o SettleDelays
    /\ pc' = "recapture"
    /\ UNCHANGED <<iterationCount, continueLoop, aborted, response, fcIndex,
                   executedActions, currentUrl, error, errSource, events,
                   emittedBefore, doneCount, errorCount, modelCalls,
                   screenshots, desktopCalls, modelAlwaysActs, resolution,
                   messages, contents, staleShot, completedAfterAbort,
                   abortIteration, functionResponses, scripts, parked, current,
                   route, requestAborted, sandboxId, activeSandboxId, vncUrl,
                   preamble>>

(***************************************************************************)
(* The function responses of the observation turn (google.ts:448-455): one *)
(* per part of functionCalls, with the name of its call and the url.       *)
(***************************************************************************)
FunctionResponse(name, url) == [name |-> name, url |-> url]

FunctionResponsesOfExecuted ==
    [i \in DOMAIN executedActions |->
        FunctionResponse(executedActions[i].name, currentUrl)]

FunctionResponses ==
    [i \in DOMAIN functionCalls |->
        FunctionResponse(functionCalls[i].functionCall.name, currentUrl)]

RecaptureAndAppend ==
    /\ pc = "recapture"
    /\ screenshots' = screenshots + 1
    /\ contents' = contents \o AppendedTurns(screenshots')
    /\ staleShot' = FALSE
    /\ pc' = "loop"
    /\ LeaveLoopBody
    /\ functionResponses' = FunctionResponses
    /\ UNCHANGED <<iterationCount, continueLoop, aborted, currentUrl, error,
                   errSource, doneCount, errorCount, modelCalls,
                   modelAlwaysActs, resolution, messages, completedAfterAbort,
                   abortIteration, scripts, parked, current, route,
                   requestAborted, sandboxId, activeSandboxId, vncUrl, preamble>>

(***************************************************************************)
(* Recapture closes the iteration and starts a fresh log for the next one  *)
(* (emittedBefore remembers that events were yielded before);              *)
(* RecaptureKeepLog is the same step with the run's whole log kept.        *)
(***************************************************************************)
Recapture ==
    /\ RecaptureAndAppend
    /\ events' = <<>>
    /\ emittedBefore' = (emittedBefore \/ events # <<>>)
    /\ desktopCalls' = <<>>
    /\ settleWaits' = <<>>

RecaptureKeepLog ==
    /\ RecaptureAndAppend
    /\ UNCHANGED <<events, emittedBefore, desktopCalls, settleWaits>>

RecaptureFails ==
    /\ pc = "recapture"
    /\ screenshots' = screenshots + 1
    /\ \E e \in Thrown : error' = e
    /\ errSource' = "screenshot"
    /\ pc' = "catch"
    /\ LeaveLoopBody
    /\ UNCHANGED <<iterationCount, continueLoop, aborted, currentUrl, events,
                   emittedBefore, doneCount, errorCount, modelCalls,
                   desktopCalls, settleWaits, modelAlwaysActs, resolution,
                   messages, contents, staleShot, completedAfterAbort,
                   abortIteration, functionResponses, scripts, parked, current,
                   route, requestAborted, sandboxId, activeSandboxId, vncUrl,
                   preamble>>

(***************************************************************************)
(* After the loop (google.ts:473-483).                                     *)
(***************************************************************************)
LimitEvents ==
    IF iterationCount >= MAX_ITERATIONS THEN <<ErrorEvent(LimitText)>> ELSE <<>>

LimitCheck ==
    /\ pc = "post"
    /\ Emit(LimitEvents)
    /\ pc' = "final"
    /\ UNCHANGED <<iterationCount, continueLoop, aborted, response, fcIndex,
                   executedActions, currentUrl, error, errSource,
                   emittedBefore, modelCalls, screenshots, desktopCalls,
                   settleWaits, modelAlwaysActs, resolution, messages,
                   contents, staleShot, completedAfterAbort, abortIteration,
                   functionResponses, scripts, parked, current, route,
                   requestAborted, sandboxId, activeSandboxId, vncUrl, preamble>>

FinalDone ==
    /\ pc = "final"
    /\ Emit(<<Done(<<>>)>>)
    /\ pc' = "done"
    /\ UNCHANGED <<iterationCount, continueLoop, aborted, response, fcIndex,
                   executedActions, currentUrl, error, errSource,
                   emittedBefore, modelCalls, screenshots, desktopCalls,
                   settleWaits, modelAlwaysActs, resolution, messages,
                   contents, staleShot, completedAfterAbort, abortIteration,
                   functionResponses, scripts, parked, current, route,
                   requestAborted, sandboxId, activeSandboxId, vncUrl, preamble>>

(***************************************************************************)
(* The catch block (google.ts:484-524).                                    *)
(***************************************************************************)
ErrorContentAuthFirst(e) ==
    IF e.isError
    THEN IF \/ Includes(e.message, "API key")
            \/ Includes(e.message, "API_KEY")
         THEN AuthText
         ELSE IF \/ Includes(e.message, "quota")
                 \/ Includes(e.message, "429")
                 \/ Includes(e.message, "RESOURCE_EXHAUSTED")
              THEN QuotaText
              ELSE GenericText(e.message)
    ELSE ServiceText

ErrorContent(e) ==
    IF e.isError
    THEN IF \/ Includes(e.message, "quota")
            \/ Includes(e.message, "429")
            \/ Includes(e.message, "RESOURCE_EXHAUSTED")
         THEN QuotaText
         ELSE IF \/ Includes(e.message, "API key")
                 \/ Includes(e.message, "API_KEY")
              THEN AuthText
              ELSE GenericText(e.message)
    ELSE ServiceText

CatchEventsNoDone(e) == <<ErrorEvent(ErrorContent(e))>>

CatchEvents(e) == <<ErrorEvent(ErrorContent(e)), Done(<<>>)>>

HandleErrorRetry ==
    /\ pc = "catch"
    /\ Emit(<<ErrorEvent(ErrorContent(error))>>)
    /\ pc' = "loop"
    /\ UNCHANGED <<iterationCount, continueLoop, aborted, response, fcIndex,
                   executedActions, currentUrl, error, errSource,
                   emittedBefore, modelCalls, screenshots, desktopCalls,
                   settleWaits, modelAlwaysActs, resolution, messages,
                   contents, staleShot, completedAfterAbort, abortIteration,
                   functionResponses, scripts, parked, current, route,
                   requestAborted, sandboxId, activeSandboxId, vncUrl, preamble>>

HandleError ==
    /\ pc = "catch"
    /\ Emit(CatchEvents(error))
    /\ pc' = "done"
    /\ UNCHANGED <<iterationCount, continueLoop, aborted, response, fcIndex,
                   executedActions, currentUrl, error, errSource,
                   emittedBefore, modelCalls, screenshots, desktopCalls,
                   settleWaits, modelAlwaysActs, resolution, messages,
                   contents, staleShot, completedAfterAbort, abortIteration,
                   functionResponses, scripts, parked, current, route,
                   requestAborted, sandboxId, activeSandboxId, vncUrl, preamble>>

(***************************************************************************)
(* The caller aborts the signal; it can do so at any suspension point.     *)
(***************************************************************************)
Abort ==
    /\ pc # "done"
    /\ ~aborted
    /\ aborted' = TRUE
    /\ abortIteration' = iterationCount
    /\ UNCHANGED <<pc, iterationCount, continueLoop, response, fcIndex,
                   executedActions, currentUrl, error, errSource, events,
                   emittedBefore, doneCount, errorCount, modelCalls,
                   screenshots, desktopCalls, settleWaits, modelAlwaysActs,
                   resolution, messages, contents, staleShot,
                   completedAfterAbort, functionResponses, scripts, parked,
                   current, route, requestAborted, sandboxId, activeSandboxId,
                   vncUrl, preamble>>

Step ==
    \/ InitialScreenshot
    \/ InitialScreenshotFails
    \/ IterationStart
    \/ IterationAborted
    \/ LoopExit
    \/ ModelReturns
    \/ ModelFails
    \/ NoCandidatesDone
    \/ EmptyContentDone
    \/ NoFunctionCallsDone
    \/ FunctionCallsFound
    \/ SkipMalformedCall
    \/ YieldAction
    \/ ExecuteAction
    \/ ExecuteActionFails
    \/ Settle
    \/ Recapture
    \/ RecaptureFails
    \/ LimitCheck
    \/ FinalDone
    \/ HandleError

Next == Step \/ Abort

Spec == Init /\ [][Next]_vars

(***************************************************************************)
(* Every awaited call returns or fails and the consumer keeps pulling, so  *)
(* the generator always takes its next step.                               *)
(***************************************************************************)
FairSpec == Spec /\ WF_vars(Step)

TypeOK ==
    /\ pc \in {"start", "loop", "model", "response", "calls", "exec",
               "recapture", "post", "final", "catch", "done"}
    /\ iterationCount \in 0..MAX_ITERATIONS
    /\ aborted \in BOOLEAN
    /\ response \in Responses
    /\ doneCount \in 0..2
    /\ errorCount \in 0..1
    /\ resolution = NativeResolution
    /\ messages \in MessageLists
    /\ Len(contents) <= Len(messages) + 1 + 2 * MAX_ITERATIONS
    /\ staleShot \in BOOLEAN
    /\ completedAfterAbort \in 0..MaxParts
    /\ abortIteration \in 0..MAX_ITERATIONS
    /\ Len(functionResponses) <= MaxParts
    /\ functionResponses # <<>> => pc = "loop"

(***************************************************************************)
(* Reading the event stream.                                               *)
(***************************************************************************)
LastEvent == events[Len(events)]

EndsWith(first, second) ==
    /\ Len(events) >= 2
    /\ events[Len(events) - 1] = first
    /\ events[Len(events)] = second

Cancelled == \E i \in DOMAIN events : events[i] = Done(StoppedText)

ErrorKind(content) ==
    IF content = QuotaText THEN "quota"
    ELSE IF content = AuthText THEN "auth"
    ELSE IF content = LimitText THEN "limit_reached"
    ELSE "generic"

ExpectedKind(message) ==
    IF \E q \in QuotaMarkers : Includes(message, q) THEN "quota"
    ELSE IF \E a \in AuthMarkers : Includes(message, a) THEN "auth"
    ELSE "generic"

(***************************************************************************)
(* C1: once a Done event has been emitted no further event is emitted:     *)
(* the run's events hold exactly one Done and it is the last event.        *)
(***************************************************************************)
C1_DoneIsLastAndOnly ==
    /\ doneCount <= 1
    /\ doneCount = 1 => (events # <<>> /\ LastEvent.type = "done")

(***************************************************************************)
(* C2: every run terminates and its final event is Done, whatever the      *)
(* model returns and wherever a call fails, provided every awaited call    *)
(* returns or fails.                                                       *)
(***************************************************************************)
C2_RunEndsWithDone ==
    <>(pc = "done" /\ events # <<>> /\ LastEvent.type = "done")

C2_Witness ==
    /\ pc = "done"
    /\ errSource = "screenshot"
    /\ iterationCount = MAX_ITERATIONS
    /\ LastEvent.type = "done"

(***************************************************************************)
(* C3: with a model that returns a well-formed action call on every call,  *)
(* no failing call and no cancellation, the run makes exactly 50 model     *)
(* calls and ends with exactly one limit-reached Error followed by Done.   *)
(***************************************************************************)
C3_IterationCap ==
    (pc = "done" /\ modelAlwaysActs /\ errSource = "none" /\ ~Cancelled)
        => /\ modelCalls = MAX_ITERATIONS
           /\ errorCount = 1
           /\ EndsWith(ErrorEvent(LimitText), Done(<<>>))

C3_Witness ==
    /\ pc = "done"
    /\ modelAlwaysActs
    /\ errSource = "none"
    /\ ~Cancelled
    /\ modelCalls = MAX_ITERATIONS

(***************************************************************************)
(* C4: when the signal is found set at the head of an iteration, no model  *)
(* call and no action is executed from then on, and the events end in Done *)
(* and hold no Error.                                                      *)
(***************************************************************************)
C4_CancelledRunHasNoError ==
    Cancelled
        => /\ pc \in {"post", "final", "done"}
           /\ errorCount = 0
           /\ pc = "done" => LastEvent.type = "done"

(***************************************************************************)
(* C5: when the first response has no action calls and no reasoning text,  *)
(* the events of the run are exactly [Done].                               *)
(***************************************************************************)
C5_EmptyResponseYieldsDoneOnly ==
    (/\ pc = "done"
     /\ modelCalls = 1
     /\ errSource = "none"
     /\ Len(functionCalls) = 0
     /\ ReasoningEvents(response.parts) = <<>>)
        => /\ ~emittedBefore
           /\ Len(events) = 1
           /\ events[1].type = "done"

(***************************************************************************)
(* C6: after an Error event the loop never resumes: no model call, no      *)
(* desktop call, no screenshot and no event other than the closing Done    *)
(* follows it, and the run ends with Error then Done.                      *)
(***************************************************************************)
C6_NoResumeAfterError ==
    /\ [][errorCount >= 1 =>
            /\ modelCalls' = modelCalls
            /\ screenshots' = screenshots
            /\ desktopCalls' = desktopCalls
            /\ settleWaits' = settleWaits
            /\ events' = events \/ events' = Append(events, Done(<<>>))]_vars
    /\ []((pc = "done" /\ errorCount >= 1) =>
            /\ Len(events) >= 2
            /\ events[Len(events) - 1].type = "error"
            /\ events[Len(events)] = Done(<<>>))

C6_Witness ==
    /\ pc = "done"
    /\ errSource = "exec"
    /\ errorCount = 1
    /\ emittedBefore
    /\ EndsWith(ErrorEvent(ErrorContent(error)), Done(<<>>))

(***************************************************************************)
(* C7: a model-call failure is classified by its message: quota markers    *)
(* first, then auth markers, else generic; the Error is followed by Done.  *)
(***************************************************************************)
C7_ModelFailureClassification ==
    (pc = "done" /\ errSource = "model")
        => /\ Len(events) >= 2
           /\ events[Len(events) - 1].type = "error"
           /\ ErrorKind(events[Len(events) - 1].content)
                = ExpectedKind(error.message)
           /\ events[Len(events)].type = "done"

C7_Witness ==
    /\ pc = "done"
    /\ errSource = "model"
    /\ Includes(error.message, "RESOURCE_EXHAUSTED")
    /\ Includes(error.message, "API_KEY")
    /\ EndsWith(ErrorEvent(QuotaText), Done(<<>>))

(***************************************************************************)
(* C8: a failure raised by a desktop call during action execution is       *)
(* always surfaced as the generic Error followed by Done, whatever its     *)
(* message holds.                                                          *)
(***************************************************************************)
C8_ExecutionFailureIsGeneric ==
    (pc = "done" /\ errSource = "exec")
        => /\ Len(events) >= 2
           /\ events[Len(events) - 1].type = "error"
           /\ ErrorKind(events[Len(events) - 1].content) = "generic"
           /\ events[Len(events)].type = "done"

(***************************************************************************)
(* C9: an Action event whose execution does not fail is immediately        *)
(* followed by its ActionCompleted; nothing else comes between them and    *)
(* no action is left pending when the turn ends.                           *)
(***************************************************************************)
C9_ActionThenCompleted ==
    /\ \A i \in 1..(Len(events) - 1) :
        events[i].type = "action" =>
            \/ events[i + 1].type = "action_completed"
            \/ events[i + 1].type = "error" /\ errSource = "exec"
    /\ (events # <<>> /\ LastEvent.type = "action") =>
            \/ pc = "exec"
            \/ pc = "catch" /\ errSource = "exec"

C9_Witness ==
    /\ emittedBefore
    /\ pc = "recapture"
    /\ Len(events) = 4
    /\ events[1].type = "action"
    /\ events[2].type = "action_completed"
    /\ events[3].type = "action"
    /\ events[4].type = "action_completed"

(***************************************************************************)
(* C10: every action-call part of a model turn, malformed ones included,   *)
(* yields exactly one Action and one ActionCompleted event.                *)
(***************************************************************************)
C10_EveryCallYieldsActionPair ==
    pc = "recapture"
        => /\ CountType(events, "action") = Len(functionCalls)
           /\ CountType(events, "action_completed") = Len(functionCalls)

(***************************************************************************)
(* C11: a response with no candidates, or whose first candidate has no     *)
(* content, ends the run normally at whichever iteration it comes: the     *)
(* loop is left and the run's events hold no Error.                        *)
(***************************************************************************)
EndedByEmptyResponse ==
    \E i \in DOMAIN events :
        events[i] \in {Done(NoResponseText), Done(EmptyResponseText)}

C11_EmptyResponseIsNormalCompletion ==
    EndedByEmptyResponse
        => /\ pc \in {"post", "final", "done"}
           /\ errorCount = 0

(***************************************************************************)
(* The end-to-end scenario: native resolution 1920x1080, a conversation of *)
(* one message, a model that first returns one click_at at (500, 500),     *)
(* with or without text, and from then on content without action calls.    *)
(* The log of the whole run is kept.                                       *)
(***************************************************************************)
ClickTurns ==
    {Content(<<CallPart(ClickCall)>>)}
        \cup {Content(<<TextPart(t), CallPart(ClickCall)>>) : t \in Texts}

NoCallTurns ==
    {r \in Responses :
        r.hasContent /\ \A i \in DOMAIN r.parts : ~IsCallPart(r.parts[i])}

InitE2E == Constructed(NativeResolution, <<UserMessage>>) /\ SingleRun

ClickThenNoCalls ==
    ModelReturnsFrom(IF modelCalls = 0 THEN ClickTurns ELSE NoCallTurns)

ScenarioSteps ==
    \/ InitialScreenshot
    \/ InitialScreenshotFails
    \/ IterationStart
    \/ IterationAborted
    \/ ModelFails
    \/ NoFunctionCallsDone
    \/ FunctionCallsFound
    \/ YieldAction
    \/ ExecuteAction
    \/ ExecuteActionFails
    \/ Settle
    \/ RecaptureKeepLog
    \/ RecaptureFails
    \/ LimitCheck
    \/ FinalDone
    \/ HandleError

StepE2E == ClickThenNoCalls \/ ScenarioSteps

NextE2E == StepE2E \/ Abort

SpecE2E == InitE2E /\ [][NextE2E]_vars

IsNotReasoning(e) == e.type # "reasoning"

EventTypes(evs) ==
    [i \in DOMAIN SelectSeq(evs, IsNotReasoning) |->
        SelectSeq(evs, IsNotReasoning)[i].type]

(***************************************************************************)
(* C12: in the end-to-end scenario a run without failure or cancellation   *)
(* issues exactly one desktop click, at native pixel (960, 540), makes     *)
(* exactly two model calls and emits, Reasoning events aside, exactly      *)
(* Action, ActionCompleted, Done.                                          *)
(***************************************************************************)
C12_EndToEndClick ==
    (pc = "done" /\ errSource = "none" /\ ~aborted)
        => /\ modelCalls = 2
           /\ desktopCalls = <<leftClick(960, 540)>>
           /\ EventTypes(events) = <<"action", "action_completed", "done">>

(***************************************************************************)
(* The pointer scenario: the display has one of several native             *)
(* resolutions and the model first returns one click_at or hover_at at a   *)
(* point of the 0..999 grid, then content without action calls.            *)
(***************************************************************************)
Resolutions == {<<1920, 1080>>, <<1024, 768>>, <<640, 480>>}

GridCoordinates == {0, 500, 999}

PointerCalls ==
    {[name |-> n, args |-> [x |-> x, y |-> y]] :
        n \in {"click_at", "hover_at"},
        x \in GridCoordinates, y \in GridCoordinates}

PointerTurns == {Content(<<CallPart(c)>>) : c \in PointerCalls}

InitPointer ==
    /\ \E res \in Resolutions : Constructed(res, <<UserMessage>>)
    /\ SingleRun

PointerThenNoCalls ==
    ModelReturnsFrom(IF modelCalls = 0 THEN PointerTurns ELSE NoCallTurns)

StepPointer == PointerThenNoCalls \/ ScenarioSteps

NextPointer == StepPointer \/ Abort

SpecPointer == InitPointer /\ [][NextPointer]_vars

(***************************************************************************)
(* C13: every pixel coordinate passed to the desktop lies in the display:  *)
(* 0 <= px <= W-1 and 0 <= py <= H-1 for the native resolution (W, H) and  *)
(* every point of the 0..999 grid.                                         *)
(***************************************************************************)
C13_PixelsInsideDisplay ==
    \A i \in DOMAIN desktopCalls :
        desktopCalls[i].op \in {"leftClick", "moveMouse"}
            => /\ desktopCalls[i].at[1] \in 0..(resolution[1] - 1)
               /\ desktopCalls[i].at[2] \in 0..(resolution[2] - 1)

(***************************************************************************)
(* The turn scenario: the model first returns a turn of one to MaxCalls    *)
(* action calls (a click, a text entry with Enter, a document scroll, a    *)
(* call without a name), then content without action calls. The log of the *)
(* whole run is kept.                                                      *)
(***************************************************************************)
TypeEnterCall ==
    [name |-> "type_text_at",
     args |-> [x |-> 500, y |-> 500, text |-> <<"h", "i">>,
               press_enter |-> "true", clear_before_typing |-> Absent]]

ScrollCall == [name |-> "scroll_document", args |-> [direction |-> "down"]]

TurnCalls == {ClickCall, TypeEnterCall, ScrollCall, NoNameCall}

CallLists == UNION {[1..n -> TurnCalls] : n \in 1..MaxCalls}

ActionTurns ==
    {Content([i \in DOMAIN calls |-> CallPart(calls[i])]) : calls \in CallLists}

InitTurn ==
    /\ \E msgs \in MessageLists : Constructed(NativeResolution, msgs)
    /\ SingleRun

ActionsThenNoCalls ==
    ModelReturnsFrom(IF modelCalls = 0 THEN ActionTurns ELSE NoCallTurns)

StepTurn == ActionsThenNoCalls \/ SkipMalformedCall \/ ScenarioSteps

NextTurn == StepTurn \/ Abort

SpecTurn == InitTurn /\ [][NextTurn]_vars

Delays ==
    [i \in DOMAIN executedActions |->
        getActionSettleDelay(executedActions[i])]

(***************************************************************************)
(* C14: a turn that executed at least one action is followed by exactly    *)
(* one settle wait, as long as the longest settle delay of its executed    *)
(* actions; no wait is made between the actions of the turn and none after *)
(* a turn that executed nothing.                                           *)
(***************************************************************************)
C14_SingleMaxSettleWait ==
    /\ Len(settleWaits) <= 1
    /\ (modelCalls = 1 /\ pc \in {"response", "calls", "exec"})
            => settleWaits = <<>>
    /\ (pc = "recapture" /\ executedActions = <<>>) => settleWaits = <<>>
    /\ (pc = "recapture" /\ executedActions # <<>>)
            => /\ Len(settleWaits) = 1
               /\ \E i \in DOMAIN Delays : Delays[i] = settleWaits[1]
               /\ \A i \in DOMAIN Delays : Delays[i] <= settleWaits[1]

C14_Witness ==
    /\ pc = "recapture"
    /\ Delays = <<400, 3000, 200>>
    /\ settleWaits = <<3000>>

IsAction(e) == e.type = "action"

StartedActions ==
    [i \in DOMAIN SelectSeq(events, IsAction) |->
        SelectSeq(events, IsAction)[i].action]

RECURSIVE FlatCalls(_)
FlatCalls(actions) ==
    IF actions = <<>> THEN <<>>
    ELSE ActionCalls(Head(actions)) \o FlatCalls(Tail(actions))

(***************************************************************************)
(* C16: a failed desktop call or screenshot capture ends the run there.    *)
(* The failed call is the last desktop call made: the rest of its action   *)
(* and the later actions of the turn are not executed, and the failed      *)
(* action is not completed; no settle wait, screenshot, model call or      *)
(* conversation append follows the failure, and the run ends with one      *)
(* Error followed by Done.                                                 *)
(***************************************************************************)
C16_RemoteFailureAbortsRun ==
    /\ [][(errSource \in {"exec", "screenshot"}) =>
            /\ events' \in {events, events \o CatchEvents(error)}
            /\ desktopCalls' = desktopCalls
            /\ screenshots' = screenshots
            /\ modelCalls' = modelCalls
            /\ settleWaits' = settleWaits
            /\ contents' = contents]_vars
    /\ [](errSource = "exec" =>
            /\ settleWaits = <<>>
            /\ screenshots = modelCalls
            /\ CountType(events, "action")
                    = CountType(events, "action_completed") + 1
            /\ LET started == StartedActions
                   failed == started[Len(started)]
               IN  \E n \in 1..Len(ActionCalls(failed)) :
                     desktopCalls =
                        FlatCalls(SubSeq(started, 1, Len(started) - 1))
                            \o SubSeq(ActionCalls(failed), 1, n))
    /\ []((pc = "done" /\ errSource \in {"exec", "screenshot"}) =>
            /\ errorCount = 1
            /\ EndsWith(ErrorEvent(ErrorContent(error)), Done(<<>>)))

C16_Witness ==
    /\ pc = "done"
    /\ errSource = "exec"
    /\ desktopCalls = <<leftClick(960, 540), leftClick(960, 540),
                        press("Control+a")>>
    /\ EventTypes(events) = <<"action", "action_completed", "action",
                              "error", "done">>

(***************************************************************************)
(* C17: every Action event carries a correlation id and the                *)
(* ActionCompleted event emitted for that action carries the same id.      *)
(***************************************************************************)
C17_ActionEventsCorrelated ==
    \A i \in DOMAIN events :
        events[i].type = "action"
            => /\ events[i].callId # NoCallId
               /\ (i < Len(events) /\ events[i + 1].type = "action_completed")
                    => events[i + 1].callId = events[i].callId

(***************************************************************************)
(* C18: at every model call the last turn of the conversation is an        *)
(* observation turn with the latest screenshot, and no desktop call has    *)
(* been made since that screenshot was captured.                           *)
(***************************************************************************)
LastTurn == contents[Len(contents)]

C18_ModelSeesLatestScreen ==
    pc = "model"
        => /\ contents # <<>>
           /\ LastTurn.kind = "observation"
           /\ LastTurn.role = "user"
           /\ LastTurn.shot = screenshots
           /\ ~staleShot

C18_Witness ==
    /\ pc = "model"
    /\ modelAlwaysActs
    /\ modelCalls = 2
    /\ LastTurn = ObservationTurn(3)

(***************************************************************************)
(* C19: the screenshot after a turn is captured only when every call of    *)
(* the turn has been dealt with and the settle wait of the turn is over;   *)
(* the capture is followed by the append of the model's turn and then of   *)
(* the observation turn, and both are in the conversation at the next      *)
(* model call.                                                             *)
(***************************************************************************)
IsWellFormedPart(part) == ~IsMalformed(part.functionCall)

TurnFinished ==
    /\ fcIndex > Len(functionCalls)
    /\ Len(executedActions) = Len(SelectSeq(functionCalls, IsWellFormedPart))
    /\ CountType(events, "action_completed") = Len(executedActions)
    /\ Len(settleWaits) = (IF executedActions = <<>> THEN 0 ELSE 1)

C19_RecaptureAfterActionsAndSettle ==
    /\ [][(screenshots' # screenshots /\ pc # "start") =>
            /\ pc = "recapture"
            /\ TurnFinished
            /\ pc' = "loop" =>
                    /\ Len(contents') = Len(contents) + 2
                    /\ SubSeq(contents', 1, Len(contents)) = contents
                    /\ contents'[Len(contents) + 1] = ModelTurn
                    /\ contents'[Len(contents) + 2]
                            = ObservationTurn(screenshots')]_vars
    /\ []((pc = "model" /\ modelCalls >= 1) =>
            /\ Len(contents) >= 2
            /\ contents[Len(contents) - 1] = ModelTurn
            /\ contents[Len(contents)] = ObservationTurn(screenshots))

C19_Witness ==
    /\ pc = "loop"
    /\ modelCalls = 1
    /\ screenshots = 2
    /\ emittedBefore
    /\ contents[Len(contents) - 1] = ModelTurn
    /\ LastTurn = ObservationTurn(2)

(***************************************************************************)
(* C20: the conversation only grows by appends, and at the k-th model call *)
(* it holds |messages| + 1 + 2(k-1) turns: the input messages in order,    *)
(* the initial observation, then a model turn and an observation turn for  *)
(* each completed iteration.                                               *)
(***************************************************************************)
ExpectedContents(completed) ==
    [i \in 1..(Len(messages) + 1 + 2 * completed) |->
        IF i <= Len(messages) THEN MessageTurn(messages[i])
        ELSE IF i = Len(messages) + 1 THEN ObservationTurn(1)
        ELSE IF (i - Len(messages)) % 2 = 0 THEN ModelTurn
        ELSE ObservationTurn((i - Len(messages) + 1) \div 2)]

C20_ConversationAppendOnly ==
    /\ [][/\ Len(contents') >= Len(contents)
          /\ SubSeq(contents', 1, Len(contents)) = contents]_vars
    /\ [](pc = "model" =>
            /\ Len(contents) = Len(messages) + 1 + 2 * modelCalls
            /\ contents = ExpectedContents(modelCalls))

C20_Witness ==
    /\ pc = "model"
    /\ modelCalls = 2
    /\ Len(messages) = 3
    /\ Len(contents) = 8

(***************************************************************************)
(* The action scenario: the model first returns one action call out of     *)
(* every kind executeAction tells apart (text entry with each setting of   *)
(* its two optional flags, both scroll variants in the four directions,    *)
(* the actions that touch no desktop call, a name the switch does not      *)
(* know), then content without action calls. The log of the whole run is   *)
(* kept.                                                                   *)
(***************************************************************************)
Flags == {"true", "false", Absent}

EmptyArgs == [none |-> TRUE]

TypeTextCalls ==
    {[name |-> "type_text_at",
      args |-> [x |-> 500, y |-> 500, text |-> <<"h", "i">>,
                press_enter |-> e, clear_before_typing |-> c]] :
        e \in Flags, c \in Flags}

ScrollDirections == {"up", "down", "left", "right"}

ScrollDocumentCalls ==
    {[name |-> "scroll_document", args |-> [direction |-> d]] :
        d \in ScrollDirections}

ScrollAtCalls ==
    {[name |-> "scroll_at",
      args |-> [x |-> 500, y |-> 500, direction |-> d, magnitude |-> m]] :
        d \in ScrollDirections, m \in {NoNumber, 500}}

NoOpNames == {"wait_5_seconds", "go_back", "go_forward", "search", "zoom_in"}

NoOpCalls == {[name |-> n, args |-> EmptyArgs] : n \in NoOpNames}

ActionKinds ==
    TypeTextCalls \cup ScrollDocumentCalls \cup ScrollAtCalls \cup NoOpCalls

SingleActionTurns == {Content(<<CallPart(c)>>) : c \in ActionKinds}

InitAction == Constructed(NativeResolution, <<UserMessage>>) /\ SingleRun

OneActionThenNoCalls ==
    ModelReturnsFrom(IF modelCalls = 0 THEN SingleActionTurns ELSE NoCallTurns)

StepAction == OneActionThenNoCalls \/ ScenarioSteps

NextAction == StepAction \/ Abort

SpecAction == InitAction /\ [][NextAction]_vars

(***************************************************************************)
(* The one action of the scenario's turn, once it has been executed.       *)
(***************************************************************************)
Executed(names) ==
    /\ pc = "recapture"
    /\ Len(executedActions) = 1
    /\ executedActions[1].name \in names

PressedEnter == \E i \in DOMAIN desktopCalls : desktopCalls[i] = press("Enter")

(***************************************************************************)
(* C21: when the execution of a type_text_at action presses Enter, the     *)
(* settle wait of its turn is the flat 3000 ms; the wait of 50 ms per      *)
(* character is used only when Enter is not pressed.                       *)
(***************************************************************************)
C21_EnterMeansFlatDelay ==
    Executed({"type_text_at"})
        => settleWaits =
            (IF PressedEnter THEN <<3000>>
             ELSE <<50 * Len(executedActions[1].args.text)>>)

(***************************************************************************)
(* C22: a type_text_at action makes its desktop calls in this order, each  *)
(* once: a click at the resolved point; select-all and delete unless       *)
(* clear_before_typing is false; the write of the text; Enter unless       *)
(* press_enter is false. A failing call cuts the sequence short.           *)
(***************************************************************************)
TypeTextOrder(args) ==
    <<leftClick(960, 540)>>
        \o (IF args.clear_before_typing = "false" THEN <<>>
            ELSE <<press("Control+a"), press("Backspace")>>)
        \o <<write(args.text)>>
        \o (IF args.press_enter = "false" THEN <<>> ELSE <<press("Enter")>>)

IsPrefix(short, long) ==
    /\ Len(short) <= Len(long)
    /\ SubSeq(long, 1, Len(short)) = short

C22_TypeTextCallOrder ==
    (StartedActions # <<>> /\ StartedActions[1].name = "type_text_at")
        => /\ IsPrefix(desktopCalls, TypeTextOrder(StartedActions[1].args))
           /\ pc = "exec" => desktopCalls = <<>>
           /\ (pc \in {"calls", "recapture"} /\ modelCalls = 1)
                => desktopCalls = TypeTextOrder(StartedActions[1].args)

C22_Witness ==
    /\ Executed({"type_text_at"})
    /\ executedActions[1].args.press_enter = Absent
    /\ executedActions[1].args.clear_before_typing = Absent
    /\ desktopCalls = <<leftClick(960, 540), press("Control+a"),
                        press("Backspace"), write(<<"h", "i">>),
                        press("Enter")>>

(***************************************************************************)
(* C23: a scroll_document or scroll_at action with direction left or right *)
(* makes no desktop call, does not fail, and is completed.                 *)
(***************************************************************************)
StartedHorizontalScroll ==
    /\ StartedActions # <<>>
    /\ StartedActions[1].name \in {"scroll_document", "scroll_at"}
    /\ StartedActions[1].args.direction \in {"left", "right"}

C23_HorizontalScrollIsNoOp ==
    StartedHorizontalScroll
        => /\ desktopCalls = <<>>
           /\ errSource # "exec"
           /\ pc = "recapture" => CountType(events, "action_completed") = 1

(***************************************************************************)
(* C24: wait_5_seconds, go_back, go_forward, search and a name the switch  *)
(* does not know make no desktop call and never fail; the action is        *)
(* announced and completed, and the run goes on to the settle wait, the    *)
(* screenshot and the next iteration: it ends in that turn only when the   *)
(* screenshot fails or the signal is aborted.                              *)
(***************************************************************************)
StartedNoOp ==
    /\ StartedActions # <<>>
    /\ StartedActions[1].name \in
            {"wait_5_seconds", "go_back", "go_forward", "search", "zoom_in"}

C24_UnsupportedActionsAreNoOps ==
    StartedNoOp
        => /\ desktopCalls = <<>>
           /\ errSource # "exec"
           /\ (pc \in {"calls", "recapture"} /\ modelCalls = 1)
                => /\ EventTypes(events) = <<"action", "action_completed">>
                   /\ Len(executedActions) = 1
           /\ pc \in {"post", "final", "done", "catch"}
                => \/ modelCalls >= 2
                   \/ errSource = "screenshot"
                   \/ Cancelled

C24_Witness ==
    /\ pc = "model"
    /\ iterationCount = 2
    /\ StartedActions = <<[name |-> "zoom_in", args |-> EmptyArgs]>>
    /\ EventTypes(events) = <<"action", "action_completed">>
    /\ settleWaits = <<300>>
    /\ screenshots = 2

(***************************************************************************)
(* C25: a response without action calls stops the run there: from that     *)
(* response on no model call, desktop call, settle wait or screenshot is   *)
(* made and nothing is appended to the conversation.                       *)
(***************************************************************************)
ResponseWithoutCalls ==
    /\ response.candidates > 0
    /\ response.hasContent
    /\ Len(functionCalls) = 0

StoppedOnNoCalls ==
    /\ pc \in {"response", "post", "final", "done"}
    /\ ResponseWithoutCalls

C25_NoCallsStopsTheRun ==
    [][StoppedOnNoCalls =>
        /\ pc' \in {pc, "post", "final", "done"}
        /\ StoppedOnNoCalls'
        /\ modelCalls' = modelCalls
        /\ desktopCalls' = desktopCalls
        /\ settleWaits' = settleWaits
        /\ screenshots' = screenshots
        /\ contents' = contents]_vars

C25_Witness ==
    /\ pc = "done"
    /\ ResponseWithoutCalls
    /\ modelCalls = 3
    /\ screenshots = 3
    /\ Len(contents) = Len(messages) + 5

(***************************************************************************)
(* C26: the operations of a run are strictly sequential. The run is at one *)
(* awaited call at a time (the model call, a screenshot, or the desktop    *)
(* calls of one action); the actions of a turn are executed in the order   *)
(* of the response, and the desktop calls made are those of the started    *)
(* actions, in order, every call of one action before any of the next.     *)
(***************************************************************************)
AwaitedCalls ==
    {k \in {"model", "screenshot", "desktop"} :
        \/ k = "model" /\ pc = "model"
        \/ k = "screenshot" /\ pc \in {"start", "recapture"}
        \/ k = "desktop" /\ pc = "exec"}

WellFormedBefore(index) ==
    [i \in DOMAIN SelectSeq(SubSeq(functionCalls, 1, index - 1),
                            IsWellFormedPart) |->
        SelectSeq(SubSeq(functionCalls, 1, index - 1),
                  IsWellFormedPart)[i].functionCall]

RECURSIVE AllText(_)
AllText(parts) ==
    IF parts = <<>> THEN <<>> ELSE Head(parts).text \o AllText(Tail(parts))

HasInk(text) == \E i \in DOMAIN text : text[i] # " "

ResponseRead ==
    /\ response.hasContent
    /\ pc \in {"calls", "exec", "recapture", "post", "final", "done"}

C27_OneReasoningPerTurn ==
    /\ CountType(events, "reasoning") <= 1
    /\ \A i \in DOMAIN events : events[i].type = "reasoning" => i = 1
    /\ ResponseRead =>
            IF HasInk(AllText(response.parts))
            THEN events # <<>> /\ events[1] = Reasoning(AllText(response.parts))
            ELSE CountType(events, "reasoning") = 0

C27_Witness ==
    /\ pc = "post"
    /\ emittedBefore
    /\ AllText(response.parts) = <<" ", "a">>
    /\ events = <<Reasoning(<<" ", "a">>), Done(<<>>)>>

(***************************************************************************)
(* C29: the limit-reached Error is emitted only when 50 model calls were   *)
(* made and the loop ran out, every response having held an action call:   *)
(* no Done of a cancellation, of an empty response or of a response        *)
(* without action calls comes before it.                                   *)
(***************************************************************************)
C29_LimitErrorOnlyWhenLoopRanOut ==
    \A i \in DOMAIN events :
        events[i] = ErrorEvent(LimitText)
            => /\ modelCalls = MAX_ITERATIONS
               /\ \A j \in 1..(i - 1) : events[j].type # "done"

(***************************************************************************)
(* C30: in every state the model calls made are at most 50 and at most the *)
(* iteration counter, the screenshot captures are at most one more than    *)
(* the model calls, and at most one Error event has been emitted.          *)
(***************************************************************************)
C30_CountersBounded ==
    /\ modelCalls <= 50
    /\ modelCalls <= iterationCount
    /\ screenshots <= modelCalls + 1
    /\ errorCount <= 1

C30_Witness ==
    /\ pc = "done"
    /\ modelCalls = 50
    /\ iterationCount = 50
    /\ screenshots = 51
    /\ errorCount = 1


(***************************************************************************)
(* Two requests served at once.  POST builds a new GoogleComputerStreamer  *)
(* and a new AbortController for every request (part_002:36-42, 109-132),  *)
(* so each run has its own fields and its own locals of stream().  The     *)
(* event loop runs one run at a time and may change run at any await:      *)
(* the run that is not running is parked with all of its state.  A third   *)
(* run replays the first request alone, with the same responses.           *)
(***************************************************************************)
Requests == {1, 2}

Reference == 3

NavigateCall(url) == [name |-> "navigate", args |-> [url |-> url]]

ScriptCalls == {NavigateCall("u1"), NavigateCall("u2"), ClickCall}

ScriptTurns == {Content(<<CallPart(c)>>) : c \in ScriptCalls}

FinalAnswer == Content(<<TextPart(<<"a">>)>>)

Scripts ==
    {<<t, FinalAnswer>> : t \in ScriptTurns}
        \cup {<<t, Content(<<CallPart(ClickCall)>>), FinalAnswer>> :
                    t \in ScriptTurns}

RunState ==
    [pc |-> pc,
     iterationCount |-> iterationCount,
     continueLoop |-> continueLoop,
     aborted |-> aborted,
     response |-> response,
     fcIndex |-> fcIndex,
     executedActions |-> executedActions,
     currentUrl |-> currentUrl,
     error |-> error,
     errSource |-> errSource,
     events |-> events,
     emittedBefore |-> emittedBefore,
     doneCount |-> doneCount,
     errorCount |-> errorCount,
     modelCalls |-> modelCalls,
     screenshots |-> screenshots,
     desktopCalls |-> desktopCalls,
     settleWaits |-> settleWaits,
     modelAlwaysActs |-> modelAlwaysActs,
     resolution |-> resolution,
     messages |-> messages,
     contents |-> contents,
     staleShot |-> staleShot,
     completedAfterAbort |-> completedAfterAbort,
     abortIteration |-> abortIteration,
     functionResponses |-> functionResponses]

FreshRun ==
    [pc |-> "start",
     iterationCount |-> 0,
     continueLoop |-> TRUE,
     aborted |-> FALSE,
     response |-> NoCandidates,
     fcIndex |-> 0,
     executedActions |-> <<>>,
     currentUrl |-> "about:blank",
     error |-> NoError,
     errSource |-> "none",
     events |-> <<>>,
     emittedBefore |-> FALSE,
     doneCount |-> 0,
     errorCount |-> 0,
     modelCalls |-> 0,
     screenshots |-> 0,
     desktopCalls |-> <<>>,
     settleWaits |-> <<>>,
     modelAlwaysActs |-> TRUE,
     resolution |-> NativeResolution,
     messages |-> <<UserMessage>>,
     contents |-> <<>>,
     staleShot |-> FALSE,
     completedAfterAbort |-> 0,
     abortIteration |-> 0,
     functionResponses |-> <<>>]

Resume(r, url) ==
    /\ pc' = r.pc
    /\ iterationCount' = r.iterationCount
    /\ continueLoop' = r.continueLoop
    /\ aborted' = r.aborted
    /\ response' = r.response
    /\ fcIndex' = r.fcIndex
    /\ executedActions' = r.executedActions
    /\ currentUrl' = url
    /\ error' = r.error
    /\ errSource' = r.errSource
    /\ events' = r.events
    /\ emittedBefore' = r.emittedBefore
    /\ doneCount' = r.doneCount
    /\ errorCount' = r.errorCount
    /\ modelCalls' = r.modelCalls
    /\ screenshots' = r.screenshots
    /\ desktopCalls' = r.desktopCalls
    /\ settleWaits' = r.settleWaits
    /\ modelAlwaysActs' = r.modelAlwaysActs
    /\ resolution' = r.resolution
    /\ messages' = r.messages
    /\ contents' = r.contents
    /\ staleShot' = r.staleShot
    /\ completedAfterAbort' = r.completedAfterAbort
    /\ abortIteration' = r.abortIteration
    /\ functionResponses' = r.functionResponses

(***************************************************************************)
(* currentUrl is an instance field (google.ts:49): the url a run resumes   *)
(* with is the one its own streamer holds.                                 *)
(***************************************************************************)
OwnUrlStatic(r) == currentUrl

OwnUrl(r) == r.currentUrl

InitTwoRuns ==
    /\ Constructed(NativeResolution, <<UserMessage>>)
    /\ \E one \in Scripts, two \in Scripts : scripts = <<one, two, one>>
    /\ parked = <<FreshRun, FreshRun, FreshRun>>
    /\ current = 1
    /\ StreamCalled

ScriptedModelReturns ==
    /\ modelCalls < Len(scripts[current])
    /\ ModelReturnsFrom({scripts[current][modelCalls + 1]})

Switch ==
    /\ current \in Requests
    /\ \E other \in Requests \ {current} :
        /\ parked[other].pc # "done"
        /\ parked' = [parked EXCEPT ![current] = RunState]
        /\ current' = other
        /\ Resume(parked[other], OwnUrl(parked[other]))
    /\ UNCHANGED <<scripts, route, requestAborted, sandboxId,
                   activeSandboxId, vncUrl, preamble>>

StartReference ==
    /\ current \in Requests
    /\ pc = "done"
    /\ \A other \in Requests \ {current} : parked[other].pc = "done"
    /\ parked' = [parked EXCEPT ![current] = RunState]
    /\ current' = Reference
    /\ Resume(FreshRun, FreshRun.currentUrl)
    /\ UNCHANGED <<scripts, route, requestAborted, sandboxId,
                   activeSandboxId, vncUrl, preamble>>

StepTwoRuns ==
    \/ InitialScreenshot
    \/ IterationStart
    \/ ScriptedModelReturns
    \/ NoFunctionCallsDone
    \/ FunctionCallsFound
    \/ YieldAction
    \/ ExecuteAction
    \/ Settle
    \/ RecaptureKeepLog
    \/ LimitCheck
    \/ FinalDone

NextTwoRuns == StepTwoRuns \/ Switch \/ StartReference

SpecTwoRuns == InitTwoRuns /\ [][NextTwoRuns]_vars

Outcome(r) ==
    [events |-> r.events, contents |-> r.contents,
     iterationCount |-> r.iterationCount, currentUrl |-> r.currentUrl]

\* C28: when two runs are interleaved in any way, the events, the
\* conversation, the iteration counter and the last url of a run are those
\* of the same request run alone with the same responses.
C28_RunsAreIndependent ==
    (current = Reference /\ pc = "done")
        => Outcome(RunState) = Outcome(parked[1])

C28_Witness ==
    /\ current = Reference
    /\ pc = "done"
    /\ Len(scripts[1]) = 3
    /\ Outcome(RunState) = Outcome(parked[1])
    /\ parked[1].currentUrl = "u1"
    /\ parked[2].currentUrl = "u2"

(***************************************************************************)
(* C31: at every point of the event stream the Action events outnumber the *)
(* ActionCompleted events by 0 or 1; an ActionCompleted event comes        *)
(* directly after an Action event; and a run ends with an Action that was  *)
(* not completed only when executing that action raised the error the run  *)
(* ended with.                                                             *)
(***************************************************************************)
OpenActions ==
    CountType(events, "action") - CountType(events, "action_completed")

OpenActionsUpTo(n) ==
    CountType(SubSeq(events, 1, n), "action")
        - CountType(SubSeq(events, 1, n), "action_completed")

C31_ActionsAndCompletionsPair ==
    /\ \A n \in 0..Len(events) : OpenActionsUpTo(n) \in {0, 1}
    /\ \A i \in DOMAIN events :
        events[i].type = "action_completed"
            => /\ i > 1
               /\ events[i - 1].type = "action"
    /\ (pc = "done" /\ OpenActions = 1)
            => /\ errSource = "exec"
               /\ errorCount = 1
               /\ Len(events) >= 3
               /\ events[Len(events) - 2].type = "action"
               /\ events[Len(events) - 1].type = "error"

C31_Witness ==
    /\ pc = "done"
    /\ OpenActions = 1
    /\ CountType(events, "action") = 2
    /\ errSource = "exec"

(***************************************************************************)
(* C32: the observation turn appended after a turn holds one function      *)
(* response for every action-call part of the model's turn, in the order   *)
(* of the parts and with the name of each part's call, the parts skipped   *)
(* as malformed included, each with the current url, and then one          *)
(* screenshot; so there are at least as many function responses as Action  *)
(* events of the turn, and more when a part was skipped.                   *)
(***************************************************************************)
ActionNames ==
    [i \in DOMAIN StartedActions |-> StartedActions[i].name]

ResponseNames ==
    [i \in DOMAIN functionResponses |-> functionResponses[i].name]

IsNamed(name) == name # ""

C32_OneFunctionResponsePerCallPart ==
    /\ [][(pc = "recapture" /\ pc' = "loop") =>
            /\ Len(functionResponses') = Len(functionCalls)
            /\ \A i \in DOMAIN functionCalls :
                functionResponses'[i] =
                    [name |-> functionCalls[i].functionCall.name,
                     url |-> currentUrl']
            /\ contents'[Len(contents')] = ObservationTurn(screenshots')
            /\ screenshots' = screenshots + 1]_vars
    /\ []((pc = "loop" /\ modelCalls = 1) =>
            /\ Len(functionResponses) >= CountType(events, "action")
            /\ SelectSeq(ResponseNames, IsNamed) = ActionNames)

C32_Witness ==
    /\ pc = "loop"
    /\ modelCalls = 1
    /\ ResponseNames = <<"click_at", "", "scroll_document">>
    /\ ActionNames = <<"click_at", "scroll_document">>
    /\ LastTurn = ObservationTurn(2)

(***************************************************************************)
(* C33: a turn whose action-call parts are all malformed does not end the  *)
(* run. It emits no Action and no ActionCompleted event and makes no       *)
(* desktop call and no settle wait; the screenshot is still recaptured and *)
(* the model turn and an observation turn are appended; it uses one        *)
(* iteration; and, when the iteration was not the last of the budget,      *)
(* another model call follows unless the run is cancelled or the recapture *)
(* fails.                                                                  *)
(***************************************************************************)
AllCallsMalformed ==
    /\ response.hasContent
    /\ \E i \in DOMAIN response.parts : response.parts[i].hasCall
    /\ \A i \in DOMAIN response.parts :
        response.parts[i].hasCall
            => IsMalformed(response.parts[i].functionCall)

NoActionEvents ==
    /\ CountType(events, "action") = 0
    /\ CountType(events, "action_completed") = 0

MalformedTurnIsQuiet ==
    AllCallsMalformed =>
        /\ pc \in {"response", "calls", "recapture"}
        /\ NoActionEvents
        /\ doneCount = 0
        /\ errorCount = 0
        /\ settleWaits = <<>>
        /\ desktopCalls = <<>>
        /\ executedActions = <<>>
        /\ continueLoop
        /\ modelCalls = iterationCount

MalformedTurnIsAppended ==
    (AllCallsMalformed /\ pc' # pc) =>
        \/ pc' = "calls"
        \/ pc' = "recapture"
        \/ pc' = "catch" /\ errSource' = "screenshot"
        \/ /\ pc = "recapture"
           /\ pc' = "loop"
           /\ continueLoop'
           /\ iterationCount' = iterationCount
           /\ screenshots' = screenshots + 1
           /\ contents' =
                contents \o <<ModelTurn, ObservationTurn(screenshots')>>

C33_MalformedTurnContinues ==
    /\ []MalformedTurnIsQuiet
    /\ [][MalformedTurnIsAppended]_vars
    /\ (AllCallsMalformed /\ iterationCount < MAX_ITERATIONS)
            ~> (pc = "model" \/ aborted \/ errSource = "screenshot")

\* C33 as stated: every such turn leads to another model call (counting a
\* cancelled run and a failed recapture as excused).
C33_AlwaysAnotherModelCall ==
    AllCallsMalformed
        ~> (pc = "model" \/ aborted \/ errSource = "screenshot")

C33_Witness ==
    /\ pc = "model"
    /\ modelCalls = 1
    /\ iterationCount = 2
    /\ ~emittedBefore
    /\ events = <<>>
    /\ Len(contents) = Len(messages) + 3
    /\ LastTurn = ObservationTurn(2)
    /\ ~modelAlwaysActs

(***************************************************************************)
(* The url scenario: the first two turns of the model hold one action call *)
(* each, of any kind (navigate to one of two urls, open_web_browser, the   *)
(* pointer, keyboard, scroll and drag actions, the actions without effect  *)
(* and an unknown one), and later turns hold no action call. The log of    *)
(* the whole run is kept.                                                  *)
(***************************************************************************)
OpenBrowserCall == [name |-> "open_web_browser", args |-> EmptyArgs]

HoverCall == [name |-> "hover_at", args |-> [x |-> 500, y |-> 500]]

KeyCombinationCall ==
    [name |-> "key_combination", args |-> [keys |-> "Control+c"]]

ScrollAtCall ==
    [name |-> "scroll_at",
     args |-> [x |-> 500, y |-> 500, direction |-> "down",
               magnitude |-> NoNumber]]

DragCall ==
    [name |-> "drag_and_drop",
     args |-> [x |-> 250, y |-> 250,
               destination_x |-> 500, destination_y |-> 500]]

UrlCalls ==
    {NavigateCall("u1"), NavigateCall("u2"), OpenBrowserCall, ClickCall,
     HoverCall, TypeEnterCall, KeyCombinationCall, ScrollCall, ScrollAtCall,
     DragCall} \cup NoOpCalls

UrlTurns == {Content(<<CallPart(c)>>) : c \in UrlCalls}

InitUrl == Constructed(NativeResolution, <<UserMessage>>) /\ SingleRun

TwoActionsThenNoCalls ==
    ModelReturnsFrom(IF modelCalls < 2 THEN UrlTurns ELSE NoCallTurns)

StepUrl == TwoActionsThenNoCalls \/ ScenarioSteps

NextUrl == StepUrl \/ Abort

SpecUrl == InitUrl /\ [][NextUrl]_vars

(***************************************************************************)
(* C34: the url reported in the function responses is "about:blank" when   *)
(* the run starts; an executed navigate sets it to its url argument and an *)
(* executed open_web_browser sets it back to "about:blank"; every other    *)
(* action, executed or failed, and every other step leaves it unchanged.   *)
(***************************************************************************)
ActionCompletes == pc = "exec" /\ pc' = "calls"

ActionRunning == functionCalls[fcIndex].functionCall

UrlStep ==
    currentUrl' =
        IF ActionCompletes /\ ActionRunning.name = "navigate"
        THEN ActionRunning.args.url
        ELSE IF ActionCompletes /\ ActionRunning.name = "open_web_browser"
             THEN "about:blank"
             ELSE currentUrl

C34_UrlFollowsNavigation ==
    /\ [](pc = "start" => currentUrl = "about:blank")
    /\ [](\A i \in DOMAIN functionResponses :
            functionResponses[i].url = currentUrl)
    /\ [][UrlStep]_vars

C34_Witness ==
    /\ pc = "loop"
    /\ modelCalls = 2
    /\ StartedActions = <<NavigateCall("u1"), OpenBrowserCall>>
    /\ currentUrl = "about:blank"
    /\ functionResponses =
            <<FunctionResponse("open_web_browser", "about:blank")>>

(***************************************************************************)
(* The request handler POST (part_002:36-132) around one run.  The request *)
(* carries a sandbox id or none; the client can abort the request at any   *)
(* time, also before the handler has registered its listener.  The model   *)
(* returns a click and then content without action calls; the log of the   *)
(* whole run is kept.                                                      *)
(***************************************************************************)
SandboxIds == {NoSandboxId, "sbx-1"}

SandboxCreated(id, url) ==
    [type |-> "sandbox_created", content |-> <<>>, sandboxId |-> id,
     vncUrl |-> url]

InitRequest ==
    /\ Constructed(NativeResolution, <<UserMessage>>)
    /\ scripts = <<>>
    /\ parked = <<>>
    /\ current = 1
    /\ route = "entry"
    /\ requestAborted = FALSE
    /\ sandboxId \in SandboxIds
    /\ activeSandboxId = NoSandboxId
    /\ vncUrl = ""
    /\ preamble = <<>>

RunUntouched ==
    UNCHANGED <<pc, iterationCount, continueLoop, aborted, response, fcIndex,
                executedActions, currentUrl, error, errSource, events,
                emittedBefore, doneCount, errorCount, modelCalls, screenshots,
                desktopCalls, settleWaits, modelAlwaysActs, resolution,
                messages, contents, staleShot, completedAfterAbort,
                abortIteration, functionResponses, scripts, parked, current>>

\* request.signal.addEventListener("abort", ...) (part_002:40-42): a
\* listener does not hear an abort that happened before it was added.
RegisterListener ==
    /\ route = "entry"
    /\ route' = "registered"
    /\ RunUntouched
    /\ UNCHANGED <<requestAborted, sandboxId, activeSandboxId, vncUrl,
                   preamble>>

\* The client aborts the request; the listener, once registered, aborts
\* the controller whose signal the run reads.
ClientAborts ==
    /\ ~requestAborted
    /\ route # "failed"
    /\ pc # "done"
    /\ requestAborted' = TRUE
    /\ IF route # "entry"
       THEN /\ aborted' = TRUE
            /\ abortIteration' = iterationCount
       ELSE UNCHANGED <<aborted, abortIteration>>
    /\ UNCHANGED <<pc, iterationCount, continueLoop, response, fcIndex,
                   executedActions, currentUrl, error, errSource, events,
                   emittedBefore, doneCount, errorCount, modelCalls,
                   screenshots, desktopCalls, settleWaits, modelAlwaysActs,
                   resolution, messages, contents, staleShot,
                   completedAfterAbort, functionResponses, scripts, parked,
                   current, route, sandboxId, activeSandboxId, vncUrl,
                   preamble>>

\* await request.json() and let activeSandboxId = sandboxId (part_002:44-79)
ParseRequest ==
    /\ route = "registered"
    /\ route' = "parsed"
    /\ activeSandboxId' = sandboxId
    /\ RunUntouched
    /\ UNCHANGED <<requestAborted, sandboxId, vncUrl, preamble>>

\* a missing API key answers 500 (part_002:55-76)
MissingApiKey ==
    /\ route = "parsed"
    /\ route' = "failed"
    /\ RunUntouched
    /\ UNCHANGED <<requestAborted, sandboxId, activeSandboxId, vncUrl,
                   preamble>>

\* Sandbox.create and stream.start (part_002:82-94)
CreateSandbox ==
    /\ route = "parsed"
    /\ activeSandboxId = NoSandboxId
    /\ activeSandboxId' = "sbx-new"
    /\ vncUrl' = "https://vnc"
    /\ route' = "connected"
    /\ RunUntouched
    /\ UNCHANGED <<requestAborted, sandboxId, preamble>>

\* Sandbox.connect (part_002:95-99)
ConnectSandbox ==
    /\ route = "parsed"
    /\ activeSandboxId # NoSandboxId
    /\ route' = "connected"
    /\ RunUntouched
    /\ UNCHANGED <<requestAborted, sandboxId, activeSandboxId, vncUrl,
                   preamble>>

\* the sandbox setup throws and the handler answers 500 (part_002:139-142)
SandboxFails ==
    /\ route = "parsed"
    /\ route' = "failed"
    /\ RunUntouched
    /\ UNCHANGED <<requestAborted, sandboxId, activeSandboxId, vncUrl,
                   preamble>>

\* if (!sandboxId && activeSandboxId && vncUrl) (part_002:118)
AnnouncesAnySandbox == activeSandboxId # NoSandboxId

AnnouncesSandbox ==
    /\ sandboxId = NoSandboxId
    /\ activeSandboxId # NoSandboxId
    /\ vncUrl # ""

\* the response stream is opened (part_002:109-132)
StartStream ==
    /\ route = "connected"
    /\ route' = "streaming"
    /\ preamble' =
        IF AnnouncesSandbox
        THEN <<SandboxCreated(activeSandboxId, vncUrl)>>
        ELSE <<>>
    /\ RunUntouched
    /\ UNCHANGED <<requestAborted, sandboxId, activeSandboxId, vncUrl>>

RunSteps ==
    /\ route = "streaming"
    /\ (ClickThenNoCalls \/ ScenarioSteps)

StepRequest ==
    \/ RegisterListener
    \/ ParseRequest
    \/ MissingApiKey
    \/ CreateSandbox
    \/ ConnectSandbox
    \/ SandboxFails
    \/ StartStream
    \/ RunSteps

NextRequest == StepRequest \/ ClientAborts

SpecRequest == InitRequest /\ [][NextRequest]_vars

ResponseStream == preamble \o events

\* C35: once the client's request is aborted, whether before or after the
\* handler registered its listener, the signal the run reads is set.
C35_AbortReachesRun ==
    (requestAborted /\ route = "streaming") => aborted

(***************************************************************************)
(* C36: the response stream starts with a SANDBOX_CREATED event, before    *)
(* every event of the run, exactly when the request carried no sandbox id  *)
(* and a sandbox was created for it; when the request names a sandbox the  *)
(* stream holds the events of the run only.                                *)
(***************************************************************************)
C36_SandboxCreatedFirstIffNew ==
    /\ [](route = "streaming" =>
            \/ /\ sandboxId = NoSandboxId
               /\ activeSandboxId # NoSandboxId
               /\ preamble = <<SandboxCreated(activeSandboxId, vncUrl)>>
            \/ /\ sandboxId # NoSandboxId
               /\ activeSandboxId = sandboxId
               /\ preamble = <<>>)
    /\ [](route # "streaming" => ResponseStream = <<>>)
    /\ [](\A i \in DOMAIN ResponseStream :
            ResponseStream[i].type = "sandbox_created" => i = 1)
    /\ [][route = "streaming" => preamble' = preamble]_vars

C36_Witness ==
    /\ pc = "done"
    /\ Len(ResponseStream) > 2
    /\ ResponseStream[1] = SandboxCreated("sbx-new", "https://vnc")
    /\ ResponseStream[2].type = "action"

(***************************************************************************)
(* The scroll scenario: the first turn of the model is one scroll_at call, *)
(* up or down, with any magnitude of the normalized range or none; later   *)
(* turns hold no action call.  No call fails and nothing is cancelled.     *)
(***************************************************************************)
MaxMagnitude == 999

Magnitudes == {NoNumber} \cup 0..MaxMagnitude

VerticalScrollAtCalls ==
    {[name |-> "scroll_at",
      args |-> [x |-> 500, y |-> 500, direction |-> d, magnitude |-> m]] :
        d \in {"up", "down"}, m \in Magnitudes}

ScrollTurns == {Content(<<CallPart(c)>>) : c \in VerticalScrollAtCalls}

InitScroll == Constructed(NativeResolution, <<UserMessage>>) /\ SingleRun

ScrollThenNoCalls ==
    ModelReturnsFrom(IF modelCalls = 0 THEN ScrollTurns ELSE NoCallTurns)

NextScroll ==
    \/ InitialScreenshot
    \/ IterationStart
    \/ ScrollThenNoCalls
    \/ NoFunctionCallsDone
    \/ FunctionCallsFound
    \/ YieldAction
    \/ ExecuteAction
    \/ Settle
    \/ RecaptureKeepLog
    \/ LimitCheck
    \/ FinalDone

SpecScroll == InitScroll /\ [][NextScroll]_vars

ScrollAmount(magnitude) ==
    IF magnitude = NoNumber THEN 400 ELSE Round(magnitude * 500, 1000)

\* C37: a scroll_at up or down scrolls by round(magnitude / 1000 * 500) for
\* every magnitude given, 0 included, and by 400 (the default magnitude 800)
\* only when no magnitude is given.
C37_ScrollAmountFollowsMagnitude ==
    \A i \in DOMAIN desktopCalls :
        desktopCalls[i].op = "scroll"
            => /\ Len(StartedActions) = 1
               /\ desktopCalls[i].at =
                    <<ScrollAmount(StartedActions[1].args.magnitude)>>

====
